---- MODULE Spec2Model ----
(***************************************************************************)
(* Model of the three lints of libobs-rs-lints:                            *)
(*   ensure_obs_call_in_runtime        (SpecGuard)                         *)
(*   no_unqualified_libobs_uses        (SpecQual)                          *)
(*   require_safety_comments_on_unsafe (SpecSafety)                        *)
(* Each lint is a set of callbacks the compiler's late-lint visitor calls  *)
(* while it walks the HIR of one crate: check_expr before the children of  *)
(* an expression, check_expr_post after them, check_item / check_block on  *)
(* items and blocks.                                                       *)
(***************************************************************************)
EXTENDS Integers, Sequences, FiniteSets, TLC

VARIABLES
    pc,               \* "walk" while the unit is being traversed, "done" after
    path,             \* the walker's position: open expressions, outermost first
    nextId,           \* next HirId local id the front-end hands out
    budget,           \* expressions the generated unit may still contain
    ALLOWED_CLOSURES, \* thread_local FxHashSet<HirId>
    CLOSURE_STACK,    \* thread_local Vec<bool>
    calls,            \* history: every Call expression check_expr has seen
    findings,         \* spans handed to cx.span_lint, in order
    checked_expr,     \* no_unqualified_libobs_uses: the expression last checked
    checked_node      \* require_safety_comments_on_unsafe: the item or block last checked

guardVars == <<path, budget, ALLOWED_CLOSURES, CLOSURE_STACK, calls>>

vars == <<pc, nextId, findings, guardVars, checked_expr, checked_node>>

\* nothing checked yet
NoNode == [kind |-> "None"]

(***************************************************************************)
(* Bounds of the generated units.                                          *)
(***************************************************************************)
MaxNodes == 4

RECURSIVE SumSeq(_)
SumSeq(s) == IF s = <<>> THEN 0 ELSE Head(s) + SumSeq(Tail(s))

Last(s) == s[Len(s)]
Front(s) == SubSeq(s, 1, Len(s) - 1)

SeqsUpTo(S, lo, hi) == UNION {[1..n -> S] : n \in lo..hi}

(***************************************************************************)
(* ensure_obs_call_in_runtime                                              *)
(***************************************************************************)
NoDef == "<none>"
MethodNames == {"run_with_obs", "run_with_obs_result", "spawn"}
DefCrates == {"libobs", "libobs_sys", NoDef}

\* An expression as the front-end presents it: its kind; the method name of a
\* MethodCall; for a Call whether the callee expression is a path and the crate
\* of the definition that path resolves to (NoDef when opt_def_id() is None).
\* The receiver of a MethodCall and the callee of a Call are expressions on
\* which check_expr and EnsureObsCallInRuntime_check_expr_post change nothing (a local, a path); the
\* walk over them is not a step of its own.  The children are the arguments
\* of a call, the body of a closure, the statements of any other expression.
Shapes ==
    {[kind |-> k, name |-> "", callee |-> "", def |-> NoDef] : k \in {"Closure", "Other"}}
    \cup {[kind |-> "MethodCall", name |-> m, callee |-> "", def |-> NoDef] : m \in MethodNames}
    \cup {[kind |-> "Call", name |-> "", callee |-> "Path", def |-> d] : d \in DefCrates}
    \cup {[kind |-> "Call", name |-> "", callee |-> "Field", def |-> NoDef]}

\* children an expression of this kind always has
MinKids(kind) == IF kind = "Closure" THEN 1 ELSE 0
\* a closure has one body; a call has any number of arguments and any other
\* expression any number of statements, as far as b more expressions allow
MaxKidsOf(kind, b) == IF kind = "Closure" THEN 1 ELSE b

KidShapes(kind, b) == SeqsUpTo(Shapes, MinKids(kind), MaxKidsOf(kind, b))

Cost(parentKind, kids) ==
    Len(kids) - MinKids(parentKind)
        + SumSeq([i \in 1..Len(kids) |-> MinKids(kids[i].kind)])

\* the children with their HirIds
Number(kids, first) ==
    [i \in 1..Len(kids) |->
        [hir_id |-> first + i - 1, kind |-> kids[i].kind, name |-> kids[i].name,
         callee |-> kids[i].callee, def |-> kids[i].def]]

WrapperNames == {"run_with_obs", "run_with_obs_result"}

guard_is_from_libobs_crate(crate_name) == crate_name = "libobs"

mark_allowed_closure_args(allowed, args) ==
    allowed \cup {args[i].hir_id : i \in {j \in 1..Len(args) : args[j].kind = "Closure"}}

\* a push that forgets the permission of the enclosing closure
push_closure_allowed_no_inherit(allowed, stack, hir_id) ==
    Append(stack, hir_id \in allowed)

push_closure_allowed(allowed, stack, hir_id) ==
    LET is_allowed == hir_id \in allowed
        inherited == IF stack = <<>> THEN FALSE ELSE Last(stack)
    IN  Append(stack, is_allowed \/ inherited)

\* a pop that leaves the entry of the closed closure on the stack
pop_closure_allowed_no_pop(stack) == stack

pop_closure_allowed(stack) == IF stack = <<>> THEN stack ELSE Front(stack)

currently_allowed(stack) == IF stack = <<>> THEN FALSE ELSE Last(stack)

\* the closure is a direct argument of a run_with_obs / run_with_obs_result
\* method call (read off the tree, not off the lint's state)
IsWrapperArg(parent, node) ==
    /\ node.kind = "Closure"
    /\ parent.kind = "MethodCall"
    /\ parent.name \in WrapperNames

InsideWrapperClosure(p) ==
    \E i \in 2..Len(p) : IsWrapperArg(p[i-1].node, p[i].node)

\* check_expr on expr, whose children are kids; p is the path above expr
EnsureObsCallInRuntime_check_expr(expr, kids, p) ==
    LET allowed1 ==
            IF expr.kind = "MethodCall" /\ expr.name \in WrapperNames
            THEN mark_allowed_closure_args(ALLOWED_CLOSURES, kids)
            ELSE ALLOWED_CLOSURES
        stack1 ==
            IF expr.kind = "Closure"
            THEN push_closure_allowed(allowed1, CLOSURE_STACK, expr.hir_id)
            ELSE CLOSURE_STACK
        lint ==
            /\ expr.kind = "Call"
            /\ expr.callee = "Path"
            /\ expr.def # NoDef
            /\ guard_is_from_libobs_crate(expr.def)
            /\ ~currently_allowed(stack1)
    IN  /\ ALLOWED_CLOSURES' = allowed1
        /\ CLOSURE_STACK' = stack1
        /\ findings' = IF lint THEN Append(findings, expr.hir_id) ELSE findings
        /\ calls' =
            IF expr.kind = "Call"
            THEN calls \cup
                   {[hir_id |-> expr.hir_id,
                     libobs |-> expr.callee = "Path" /\ expr.def = "libobs",
                     inside |-> InsideWrapperClosure(p),
                     allowed |-> currently_allowed(stack1)]}
            ELSE calls

\* visit_expr: check_expr, then the children are queued for the walk
Enter(expr, p) ==
    \E shapes \in KidShapes(expr.kind, budget) :
        /\ Cost(expr.kind, shapes) <= budget
        /\ budget' = budget - Cost(expr.kind, shapes)
        /\ LET kids == Number(shapes, nextId)
           IN  /\ nextId' = nextId + Len(kids)
               /\ path' = Append(p, [node |-> expr, todo |-> kids])
               /\ EnsureObsCallInRuntime_check_expr(expr, kids, Append(p, [node |-> expr, todo |-> kids]))

\* the walker starts on the body of the next function of the unit
VisitBody ==
    /\ pc = "walk"
    /\ path = <<>>
    /\ \E s \in Shapes :
        /\ budget >= 1 + MinKids(s.kind)
        /\ LET root == [hir_id |-> nextId, kind |-> s.kind, name |-> s.name,
                        callee |-> s.callee, def |-> s.def]
           IN  \E shapes \in KidShapes(s.kind, budget - 1) :
                /\ 1 + MinKids(s.kind) + Cost(s.kind, shapes) <= budget
                /\ budget' = budget - (1 + MinKids(s.kind) + Cost(s.kind, shapes))
                /\ LET kids == Number(shapes, nextId + 1)
                   IN  /\ nextId' = nextId + 1 + Len(kids)
                       /\ path' = <<[node |-> root, todo |-> kids]>>
                       /\ EnsureObsCallInRuntime_check_expr(root, kids, <<[node |-> root, todo |-> kids]>>)
    /\ UNCHANGED <<pc, checked_expr, checked_node>>

\* walk_expr reaches the next child of the innermost open expression
Descend ==
    /\ pc = "walk"
    /\ path # <<>>
    /\ Last(path).todo # <<>>
    /\ LET top == Last(path)
           p == [path EXCEPT ![Len(path)].todo = Tail(top.todo)]
       IN  Enter(Head(top.todo), p)
    /\ UNCHANGED <<pc, checked_expr, checked_node>>

EnsureObsCallInRuntime_check_expr_post(expr) ==
    /\ CLOSURE_STACK' =
        IF expr.kind = "Closure" THEN pop_closure_allowed(CLOSURE_STACK)
        ELSE CLOSURE_STACK
    /\ UNCHANGED <<ALLOWED_CLOSURES, findings, calls>>

\* all children walked: EnsureObsCallInRuntime_check_expr_post, and the walker returns to the parent
Ascend ==
    /\ pc = "walk"
    /\ path # <<>>
    /\ Last(path).todo = <<>>
    /\ EnsureObsCallInRuntime_check_expr_post(Last(path).node)
    /\ path' = Front(path)
    /\ UNCHANGED <<pc, nextId, budget, checked_expr, checked_node>>

\* the traversal of the unit is over
FinishUnit ==
    /\ pc = "walk"
    /\ path = <<>>
    /\ nextId > 0
    /\ pc' = "done"
    /\ UNCHANGED <<nextId, findings, guardVars, checked_expr, checked_node>>

Count(seq, x) == Cardinality({i \in 1..Len(seq) : seq[i] = x})

InitGuard ==
    /\ pc = "walk"
    /\ path = <<>>
    /\ nextId = 0
    /\ budget = MaxNodes
    /\ ALLOWED_CLOSURES = {}
    /\ CLOSURE_STACK = <<>>
    /\ calls = {}
    /\ findings = <<>>
    /\ checked_expr = NoNode
    /\ checked_node = NoNode

NextGuard == VisitBody \/ Descend \/ Ascend \/ FinishUnit

SpecGuard == InitGuard /\ [][NextGuard]_vars

(***************************************************************************)
(* no_unqualified_libobs_uses                                              *)
(* Crate names are sequences of characters.                                *)
(***************************************************************************)
MaxSegments == 2

Libobs == <<"l", "i", "b", "o", "b", "s">>
NoCrate == <<>>
CrateNames ==
    { Libobs,
      <<"l", "i", "b", "o", "b", "s", "_", "s", "y", "s">>,
      <<"l", "i", "b", "o", "b", "s", "-", "s", "y", "s">>,
      <<"l", "i", "b", "o", "b", "s", "x">>,
      <<"l", "i", "b", "o", "b", "s", "_", "w", "i", "n", "d", "o", "w", "_", "h", "e", "l", "p", "e", "r">>,
      <<"l", "i", "b", "o", "b">>,
      <<"s", "t", "d">>,
      <<"m", "y", "l", "i", "b", "o", "b", "s">> }

None == [some |-> FALSE, val |-> <<>>]
Some(v) == [some |-> TRUE, val |-> v]

\* str::strip_prefix
strip_prefix(str, prefix) ==
    IF Len(str) >= Len(prefix) /\ SubSeq(str, 1, Len(prefix)) = prefix
    THEN Some(SubSeq(str, Len(prefix) + 1, Len(str)))
    ELSE None

\* str::starts_with
starts_with(str, prefix) ==
    Len(str) >= Len(prefix) /\ SubSeq(str, 1, Len(prefix)) = prefix

\* a family test that takes every name beginning with libobs
qual_is_from_libobs_crate_any_suffix(crate_name) ==
    starts_with(crate_name, Libobs)

qual_is_from_libobs_crate(crate_name) ==
    LET rest == strip_prefix(crate_name, Libobs)
    IN  IF rest.some
        THEN rest.val = <<>> \/ starts_with(rest.val, <<"-">>) \/ starts_with(rest.val, <<"_">>)
        ELSE FALSE

\* The expressions the walker hands to check_expr: a method call; a call
\* whose callee is no path; a call of `<T as Trait>::f` (a qualified self
\* type, two segments or more), of `T::f` (type-relative), or of a plain
\* path of 1..MaxSegments segments.  res is the crate of the definition the
\* callee resolves to, NoCrate when it resolves to none (a local).
QualExprs ==
    {[kind |-> "MethodCall", callee |-> "", qpath |-> "", segments |-> 0, res |-> NoCrate]}
    \cup {[kind |-> "Call", callee |-> "Field", qpath |-> "", segments |-> 0, res |-> NoCrate]}
    \cup {[kind |-> "Call", callee |-> "Path", qpath |-> "TypeRelative", segments |-> 2, res |-> c] :
            c \in CrateNames}
    \cup {[kind |-> "Call", callee |-> "Path", qpath |-> "ResolvedQSelf", segments |-> n, res |-> c] :
            n \in 2..MaxSegments, c \in CrateNames}
    \cup {[kind |-> "Call", callee |-> "Path", qpath |-> "Resolved", segments |-> n, res |-> c] :
            n \in 1..MaxSegments, c \in CrateNames \cup {NoCrate}}

\* check_expr: TRUE when the lint is emitted at e's span
NoUnqualifiedLibobsUses_check_expr(e) ==
    /\ e.kind = "Call"
    /\ e.callee = "Path"
    /\ e.qpath = "Resolved"
    /\ e.res # NoCrate
    /\ qual_is_from_libobs_crate(e.res)
    /\ e.segments = 1

QualCheckExpr ==
    /\ pc = "walk"
    /\ nextId < MaxNodes
    /\ \E e \in QualExprs :
        /\ checked_expr' = [kind |-> e.kind, callee |-> e.callee, qpath |-> e.qpath,
                    segments |-> e.segments, res |-> e.res, span |-> nextId]
        /\ findings' = IF NoUnqualifiedLibobsUses_check_expr(e)
                       THEN Append(findings, nextId) ELSE findings
    /\ nextId' = nextId + 1
    /\ UNCHANGED <<pc, guardVars, checked_node>>

QualFinish ==
    /\ pc = "walk"
    /\ nextId > 0
    /\ pc' = "done"
    /\ UNCHANGED <<nextId, findings, guardVars, checked_expr, checked_node>>

InitQual ==
    /\ pc = "walk"
    /\ nextId = 0
    /\ findings = <<>>
    /\ checked_expr = NoNode
    /\ checked_node = NoNode
    /\ path = <<>>
    /\ budget = 0
    /\ ALLOWED_CLOSURES = {}
    /\ CLOSURE_STACK = <<>>
    /\ calls = {}

NextQual == QualCheckExpr \/ QualFinish

SpecQual == InitQual /\ [][NextQual]_vars

(***************************************************************************)
(* require_safety_comments_on_unsafe                                       *)
(* Source text is a sequence of characters; a position is a BytePos of the *)
(* source map, in which a file begins at its start_pos.                    *)
(***************************************************************************)
MaxChecks == 2
FnLookback == 1000

Repeat(c, n) == [i \in 1..n |-> c]

Ok(v) == [ok |-> TRUE, val |-> v]
Err == [ok |-> FALSE, val |-> <<>>]

SafetyHeading == <<"#", " ", "S", "a", "f", "e", "t", "y">>
SafetyUpper == <<"/", "/", " ", "S", "A", "F", "E", "T", "Y", ":">>
SafetyTitle == <<"/", "/", " ", "S", "a", "f", "e", "t", "y", ":">>
UnsafeOpen == <<"u", "n", "s", "a", "f", "e", " ", "{">>

\* ---- the files the items of the unit sit in ----
\* a doc line (or none), then gap bytes of other comment text, then the item
DocNames == {"Safety", "safety", "none"}
DocText(name) ==
    CASE name = "Safety" -> <<"/", "/", "/", " ", "#", " ", "S", "a", "f", "e", "t", "y", "\n">>
      [] name = "safety" -> <<"/", "/", "/", " ", "#", " ", "s", "a", "f", "e", "t", "y", "\n">>
      [] OTHER -> <<>>
\* the heading sits 4 bytes into the doc line, which is 13 bytes long: with
\* FnLookback - 9 bytes between the line and the item the window still
\* holds the whole heading, with one byte more it has lost the `#`
Gaps == {0, FnLookback - 9, FnLookback - 8}
ItemText == <<"u", "n", "s", "a", "f", "e", " ", "f", "n", " ", "f", "(", ")", " ", "{", "}">>
ItemSrc ==
    [d \in DocNames \X Gaps |-> DocText(d[1]) \o Repeat("/", d[2]) \o ItemText]
ItemLo(d) == Len(DocText(d[1])) + d[2]

\* ---- the files the blocks of the unit sit in ----
\* text above the block, `unsafe {`, the text up to the first statement, the
\* statements, `}`
AboveNames == {"none", "marker"}
AboveText(name) ==
    IF name = "marker" THEN <<"/", "/", " ", "S", "A", "F", "E", "T", "Y", ":", " ", "c", "h", "e", "c", "k", "e", "d", "\n">> ELSE <<>>
InnerNames == {"none", "upper", "title", "lower", "nocolon", "sameline", "midline", "crlf", "nospace", "second",
               "formfeed", "vtab"}
InnerText(name) ==
    CASE name = "none" -> <<"\n", " ", " ">>
      [] name = "upper" -> <<"\n", " ", " ", "/", "/", " ", "S", "A", "F", "E", "T", "Y", ":", " ", "o", "k", "\n", " ", " ">>
      [] name = "title" -> <<"\n", " ", " ", "/", "/", " ", "S", "a", "f", "e", "t", "y", ":", " ", "o", "k", "\n", " ", " ">>
      [] name = "lower" -> <<"\n", " ", " ", "/", "/", " ", "s", "a", "f", "e", "t", "y", ":", " ", "n", "o", "\n", " ", " ">>
      [] name = "nocolon" -> <<"\n", " ", " ", "/", "/", " ", "S", "a", "f", "e", "t", "y", " ", "n", "o", "\n", " ", " ">>
      [] name = "sameline" -> <<" ", "/", "/", " ", "S", "A", "F", "E", "T", "Y", ":", " ", "o", "k", "\n", " ", " ">>
      [] name = "midline" -> <<"\n", " ", " ", "/", "*", " ", "x", " ", "/", "/", " ", "S", "A", "F", "E", "T", "Y", ":", " ", "o", "k", " ", "*", "/", "\n", " ", " ">>
      [] name = "crlf" -> <<"\r", "\n", "\t", "/", "/", " ", "S", "A", "F", "E", "T", "Y", ":", " ", "o", "k", "\r", "\n", "\t">>
      [] name = "nospace" -> <<"\n", " ", " ", "/", "/", "S", "A", "F", "E", "T", "Y", ":", " ", "o", "k", "\n", " ", " ">>
      [] name = "formfeed" -> <<"\n", "\f", "/", "/", " ", "S", "A", "F", "E", "T", "Y", ":", " ", "o", "k", "\n", " ", " ">>
      [] name = "vtab" -> <<"\n", " ", "U+000B", " ", "/", "/", " ", "S", "a", "f", "e", "t", "y", ":", " ", "o", "k", "\n", " ", " ">>
      [] name = "second" -> <<"\n", " ", " ", "/", "/", " ", "w", "h", "y", "\n", " ", " ", "/", "/", " ", "S", "A", "F", "E", "T", "Y", ":", " ", "o", "k", "\n", " ", " ">>
BodyNames == {"empty", "stmt", "expr", "two"}
BodyText(name) ==
    CASE name = "stmt" -> <<"f", "(", ")", ";", "\n">>
      [] name = "expr" -> <<"f", "(", ")", "\n">>
      [] name = "two" -> <<"f", "(", ")", ";", "\n", " ", " ", "/", "/", " ", "S", "A", "F", "E", "T", "Y", ":", " ", "l", "a", "t", "e", "\n", " ", " ", "g", "(", ")", ";", "\n">>
      [] OTHER -> <<>>
BodyStmts(name) == CASE name = "stmt" -> 1 [] name = "two" -> 2 [] OTHER -> 0
BodyHasExpr(name) == name = "expr"
BlockSrc ==
    [d \in AboveNames \X InnerNames \X BodyNames |->
        AboveText(d[1]) \o UnsafeOpen \o InnerText(d[2]) \o BodyText(d[3]) \o <<"}">>]

StartPositions == {0, 1500}

\* a file of the source map: where it starts, its text, and whether the text
\* can be had (an external file whose source was not loaded has none)
Src(file) ==
    IF file.layout = "item" THEN ItemSrc[<<file.a, file.b>>]
    ELSE BlockSrc[<<file.a, file.b, file.c>>]

\* SourceMap::span_to_snippet of the span with the two ends: with_lo and
\* with_hi build the span with Span::new, which puts the smaller end first
span_to_snippet(file, lo, hi) ==
    LET from == IF lo <= hi THEN lo ELSE hi
        to == IF lo <= hi THEN hi ELSE lo
    IN  IF \/ ~file.src_available
           \/ from < file.start_pos
           \/ to > file.start_pos + Len(Src(file))
        THEN Err
        ELSE Ok(SubSeq(Src(file), from - file.start_pos + 1, to - file.start_pos))

\* str::contains
contains(text, pat) ==
    \E i \in 1..(Len(text) - Len(pat) + 1) :
        text[i] = pat[1] /\ SubSeq(text, i, i + Len(pat) - 1) = pat

\* char::is_whitespace: the code points with the Unicode property
\* White_Space.  A character is a string of one character; a code point
\* that cannot be written so is written by its name.
Whitespace ==
    {"\t", "\n", "U+000B", "\f", "\r", " ", "U+0085", "U+00A0", "U+1680",
     "U+2000", "U+2001", "U+2002", "U+2003", "U+2004", "U+2005", "U+2006",
     "U+2007", "U+2008", "U+2009", "U+200A", "U+2028", "U+2029", "U+202F",
     "U+205F", "U+3000"}

\* str::trim
RECURSIVE trim_start(_)
trim_start(str) ==
    IF str # <<>> /\ Head(str) \in Whitespace THEN trim_start(Tail(str)) ELSE str
RECURSIVE trim_end(_)
trim_end(str) ==
    IF str # <<>> /\ Last(str) \in Whitespace THEN trim_end(Front(str)) ELSE str
trim(str) == trim_end(trim_start(str))

\* str::lines: split at \n, a \r before the \n is dropped with it, and a
\* final line ending opens no further line
RECURSIVE lines(_)
lines(text) ==
    IF text = <<>> THEN <<>>
    ELSE IF \E i \in 1..Len(text) : text[i] = "\n"
    THEN LET i == CHOOSE j \in 1..Len(text) :
                    text[j] = "\n" /\ \A k \in 1..(j - 1) : text[k] # "\n"
             line == SubSeq(text, 1, i - 1)
             cut == IF line # <<>> /\ Last(line) = "\r" THEN Front(line) ELSE line
         IN  <<cut>> \o lines(SubSeq(text, i + 1, Len(text)))
    ELSE <<text>>

\* a lookback that tests the item's position against 1000 and not against
\* the start of its file
has_safety_doc_comment_unclamped(file, item) ==
    LET search_start ==
            IF item.lo >= FnLookback THEN item.lo - FnLookback ELSE file.start_pos
        snippet == span_to_snippet(file, search_start, item.lo)
    IN  snippet.ok /\ contains(snippet.val, SafetyHeading)

has_safety_doc_comment(file, item) ==
    LET search_start ==
            IF item.lo >= file.start_pos + FnLookback
            THEN item.lo - FnLookback
            ELSE file.start_pos
        snippet == span_to_snippet(file, search_start, item.lo)
    IN  snippet.ok /\ contains(snippet.val, SafetyHeading)

HasMarkerLine(text) ==
    \E i \in 1..Len(lines(text)) :
        LET trimmed == trim(lines(text)[i])
        IN  starts_with(trimmed, SafetyUpper) \/ starts_with(trimmed, SafetyTitle)

\* a search that takes the marker anywhere in the window
has_safety_comment_before_block_substring(file, block) ==
    IF block.stmts = 0 /\ ~block.has_expr THEN FALSE
    ELSE LET snippet == span_to_snippet(file, block.lo, block.first_lo)
         IN  snippet.ok /\ (contains(snippet.val, SafetyUpper) \/ contains(snippet.val, SafetyTitle))

\* a search whose window opens 300 bytes above the block
has_safety_comment_before_block_lookback(file, block) ==
    IF block.stmts = 0 /\ ~block.has_expr THEN FALSE
    ELSE LET from == IF block.lo >= file.start_pos + 300 THEN block.lo - 300
                     ELSE file.start_pos
             snippet == span_to_snippet(file, from, block.first_lo)
         IN  snippet.ok /\ HasMarkerLine(snippet.val)

has_safety_comment_before_block(file, block) ==
    IF block.stmts = 0 /\ ~block.has_expr THEN FALSE
    ELSE LET block_start == block.lo
             snippet == span_to_snippet(file, block_start, block.first_lo)
         IN  snippet.ok /\ HasMarkerLine(snippet.val)

\* check_item: TRUE when the lint is emitted at the item's span
check_item(item) ==
    /\ item.kind = "Fn"
    /\ item.is_unsafe
    /\ ~has_safety_doc_comment(item.file, item)

\* check_block: TRUE when the lint is emitted at the block's span
check_block(block) ==
    /\ block.rules = "UnsafeBlock"
    /\ ~has_safety_comment_before_block(block.file, block)

\* every node carries the same fields; those its kind does not have are 0 / FALSE
Node(kind, is_unsafe, rules, stmts, has_expr, lo, first_lo, file) ==
    [kind |-> kind, is_unsafe |-> is_unsafe, rules |-> rules, stmts |-> stmts,
     has_expr |-> has_expr, lo |-> lo, first_lo |-> first_lo, file |-> file,
     span |-> nextId]

ItemFiles ==
    {[layout |-> "item", a |-> d[1], b |-> d[2], c |-> "", start_pos |-> p, src_available |-> av] :
        d \in DocNames \X Gaps, p \in StartPositions, av \in BOOLEAN}

BlockFiles ==
    {[layout |-> "block", a |-> d[1], b |-> d[2], c |-> d[3], start_pos |-> p, src_available |-> av] :
        d \in AboveNames \X InnerNames \X BodyNames, p \in StartPositions, av \in BOOLEAN}

\* the walker reaches an item of the unit: an unsafe fn in any of the item
\* files, a safe fn in any of them whose text is at hand, or a struct
CheckItem ==
    /\ pc = "walk"
    /\ nextId < MaxChecks
    /\ \E f \in ItemFiles, k \in {"Fn", "Struct"}, u \in BOOLEAN :
        /\ k = "Struct" => (~u /\ f.b = 0 /\ f.start_pos = 0)
        /\ ~u => f.src_available
        /\ LET item == Node(k, u, "", 0, FALSE,
                            f.start_pos + ItemLo(<<f.a, f.b>>), 0, f)
           IN  /\ checked_node' = item
               /\ findings' = IF check_item(item) THEN Append(findings, item.span)
                              ELSE findings
    /\ nextId' = nextId + 1
    /\ UNCHANGED <<pc, guardVars, checked_expr>>

\* the walker reaches a block of the unit: an unsafe block in any of the
\* block files, or an ordinary block with or without a marker line
CheckBlock ==
    /\ pc = "walk"
    /\ nextId < MaxChecks
    /\ \E f \in BlockFiles, r \in {"UnsafeBlock", "DefaultBlock"} :
        /\ r = "DefaultBlock" => (f.src_available /\ f.a = "none" /\ f.b \in {"none", "upper"})
        /\ LET lo == f.start_pos + Len(AboveText(f.a))
               block == Node("Block", FALSE, r, BodyStmts(f.c), BodyHasExpr(f.c), lo,
                             lo + Len(UnsafeOpen) + Len(InnerText(f.b)), f)
           IN  /\ checked_node' = block
               /\ findings' = IF check_block(block) THEN Append(findings, block.span)
                              ELSE findings
    /\ nextId' = nextId + 1
    /\ UNCHANGED <<pc, guardVars, checked_expr>>

SafetyFinish ==
    /\ pc = "walk"
    /\ nextId > 0
    /\ pc' = "done"
    /\ UNCHANGED <<nextId, findings, guardVars, checked_expr, checked_node>>

InitSafety ==
    /\ pc = "walk"
    /\ nextId = 0
    /\ findings = <<>>
    /\ checked_expr = NoNode
    /\ checked_node = NoNode
    /\ path = <<>>
    /\ budget = 0
    /\ ALLOWED_CLOSURES = {}
    /\ CLOSURE_STACK = <<>>
    /\ calls = {}

NextSafety == CheckItem \/ CheckBlock \/ SafetyFinish

SpecSafety == InitSafety /\ [][NextSafety]_vars

(***************************************************************************)
(* Claims about ensure_obs_call_in_runtime                                 *)
(***************************************************************************)

\* C1: every Call visited anywhere inside a closure that is a direct
\* argument of a run_with_obs / run_with_obs_result method call was visited
\* with currently_allowed() true, however many other closures lie between,
\* and no finding carries its span.
C1_PermissionInherited ==
    \A c \in calls : c.inside => c.allowed /\ Count(findings, c.hir_id) = 0

\* a libobs call is being visited inside a closure that is not itself marked
\* and sits in the closure argument of a wrapper call
C1_Witness ==
    /\ Len(path) = 4
    /\ IsWrapperArg(path[1].node, path[2].node)
    /\ path[3].node.kind = "Closure"
    /\ path[3].node.hir_id \notin ALLOWED_CLOSURES
    /\ path[4].node.kind = "Call"
    /\ path[4].node.def = "libobs"
    /\ CLOSURE_STACK = <<TRUE, TRUE>>
    /\ findings = <<>>

\* C2: every Call whose callee path resolves to the crate libobs and that is
\* not inside any wrapper-call closure argument has exactly one finding, at
\* its own span; closures entered and left earlier do not exempt it.
C2_ViolationDetected ==
    \A c \in calls : c.libobs /\ ~c.inside => Count(findings, c.hir_id) = 1

\* a libobs call inside a wrapper closure was visited and exempted, the
\* closure was left, and a later libobs call outside it is the one finding
C2_Witness ==
    \E c1, c2 \in calls :
        /\ c1.libobs /\ c1.inside
        /\ c2.libobs /\ ~c2.inside
        /\ c2.hir_id > c1.hir_id
        /\ findings = <<c2.hir_id>>

\* C10 (as claimed): when the traversal of a unit has finished, the closure
\* stack and the allowed-closure set hold no entries of that unit.
C10_NoStateLeft ==
    pc = "done" => CLOSURE_STACK = <<>> /\ ALLOWED_CLOSURES = {}


(***************************************************************************)
(* Claims about no_unqualified_libobs_uses                                 *)
(***************************************************************************)

\* the crate name is libobs, or libobs and a suffix that begins with - or _
InLibobsFamily(name) ==
    \/ name = Libobs
    \/ /\ Len(name) > Len(Libobs)
       /\ \A i \in 1..Len(Libobs) : name[i] = Libobs[i]
       /\ name[Len(Libobs) + 1] \in {"-", "_"}

IsResolvedDirectCall(e) ==
    e.kind = "Call" /\ e.callee = "Path" /\ e.res # NoCrate

\* C3: a direct call whose callee resolves to a definition has a finding (one,
\* at its span) exactly when the callee path has one segment and the defining
\* crate is libobs or libobs with a suffix beginning with - or _.
C3_QualificationRule ==
    IsResolvedDirectCall(checked_expr) =>
        /\ Count(findings, checked_expr.span) <= 1
        /\ Count(findings, checked_expr.span) = 1
             <=> (checked_expr.segments = 1 /\ InLibobsFamily(checked_expr.res))

\* a bare call into libobs_sys was flagged
C3_Witness ==
    /\ IsResolvedDirectCall(checked_expr)
    /\ checked_expr.segments = 1
    /\ checked_expr.res = <<"l", "i", "b", "o", "b", "s", "_", "s", "y", "s">>
    /\ Count(findings, checked_expr.span) = 1

\* a crate name as the compiler reports it: the - of a package name is a _
IsCrateName(name) == \A i \in 1..Len(name) : name[i] # "-"

\* C4 (as claimed): an unqualified call of a function imported from a crate
\* other than libobs itself, such as libobs_window_helper, has no finding.
C4_OtherCrateNotFlagged ==
    (/\ IsResolvedDirectCall(checked_expr)
     /\ checked_expr.segments = 1
     /\ IsCrateName(checked_expr.res)
     /\ checked_expr.res # Libobs)
        => Count(findings, checked_expr.span) = 0

(***************************************************************************)
(* Claims about require_safety_comments_on_unsafe                          *)
(***************************************************************************)

\* the character of the file at a position of the source map
CharAt(file, pos) == Src(file)[pos - file.start_pos + 1]

\* the text of the file from position from up to position to
TextAt(file, from, to) == [i \in 1..(to - from) |-> CharAt(file, from + i - 1)]

Max(a, b) == IF a >= b THEN a ELSE b

\* some marker stands in the text with nothing but blanks between it and
\* the beginning of its line
MarkerAtLineStart(text) ==
    \E p \in 1..Len(text) :
        /\ \E m \in {SafetyUpper, SafetyTitle} :
            /\ p + Len(m) - 1 <= Len(text)
            /\ \A k \in 1..Len(m) : text[p + k - 1] = m[k]
        /\ \A q \in 1..(p - 1) :
            (\A r \in q..(p - 1) : text[r] # "\n") => text[q] \in Whitespace

\* `# Safety` stands wholly between max(lo - 1000, file start) and lo
HeadingInWindow(file, lo) ==
    \E p \in Max(lo - FnLookback, file.start_pos)..(lo - Len(SafetyHeading)) :
        \A k \in 1..Len(SafetyHeading) : CharAt(file, p + k - 1) = SafetyHeading[k]

IsUnsafeBlock(n) == n.kind = "Block" /\ n.rules = "UnsafeBlock"
IsEmptyBlock(n) == n.stmts = 0 /\ ~n.has_expr
IsUnsafeFn(n) == n.kind = "Fn" /\ n.is_unsafe
Flagged(n) == Count(findings, n.span)

\* C5 (as claimed): an empty unsafe block has no finding, whatever text
\* precedes it (stated here for the blocks whose text is at hand).
C5_EmptyBlockClean ==
    (/\ IsUnsafeBlock(checked_node)
     /\ IsEmptyBlock(checked_node)
     /\ checked_node.file.src_available)
        => Flagged(checked_node) = 0

\* C6 (as claimed): a non-empty unsafe block with a `// SAFETY:` line in the
\* 300 bytes above the block start has no finding.
C6_MarkerAboveAccepted ==
    (/\ IsUnsafeBlock(checked_node)
     /\ ~IsEmptyBlock(checked_node)
     /\ checked_node.file.src_available
     /\ MarkerAtLineStart(TextAt(checked_node.file,
            Max(checked_node.lo - 300, checked_node.file.start_pos), checked_node.lo)))
        => Flagged(checked_node) = 0

\* C6 (amended): the searched text begins at the block start; a non-empty
\* unsafe block whose marker line stands only above the block start, and not
\* between the block start and the first statement, has exactly one finding.
C6_MarkerAboveIgnored ==
    (/\ IsUnsafeBlock(checked_node)
     /\ ~IsEmptyBlock(checked_node)
     /\ checked_node.file.src_available
     /\ MarkerAtLineStart(TextAt(checked_node.file,
            Max(checked_node.lo - 300, checked_node.file.start_pos), checked_node.lo))
     /\ ~MarkerAtLineStart(TextAt(checked_node.file, checked_node.lo, checked_node.first_lo)))
        => Flagged(checked_node) = 1

\* `// SAFETY: checked` right above `unsafe {`, nothing inside: flagged
C6_Witness ==
    /\ IsUnsafeBlock(checked_node)
    /\ checked_node.stmts = 1
    /\ checked_node.file.src_available
    /\ checked_node.file.a = "marker"
    /\ checked_node.file.b = "none"
    /\ findings = <<checked_node.span>>

\* C7: for a non-empty unsafe block whose text is at hand, a line between
\* the block start and the first statement that begins (after blanks) with
\* `// SAFETY:` or `// Safety:` means no finding; without such a line there
\* is exactly one finding at the block's span.
C7_LinePrefixRule ==
    (/\ IsUnsafeBlock(checked_node)
     /\ ~IsEmptyBlock(checked_node)
     /\ checked_node.file.src_available)
        => IF MarkerAtLineStart(TextAt(checked_node.file, checked_node.lo, checked_node.first_lo))
           THEN Flagged(checked_node) = 0
           ELSE Flagged(checked_node) = 1

\* a block of two statements with the marker only in the middle of a line
\* and before the second statement has its one finding
C7_Witness ==
    /\ IsUnsafeBlock(checked_node)
    /\ checked_node.stmts = 2
    /\ checked_node.file.src_available
    /\ checked_node.file.b = "midline"
    /\ Flagged(checked_node) = 1

\* C8: an unsafe function whose text is at hand has no finding exactly when
\* `# Safety` stands in the text from max(start - 1000, file start) to its
\* start, and one finding at its span otherwise; a function that is not
\* unsafe has none.
C8_FunctionRule ==
    checked_node.kind = "Fn" =>
        /\ Flagged(checked_node) <= 1
        /\ (checked_node.is_unsafe /\ checked_node.file.src_available) =>
              (Flagged(checked_node) = 0
                 <=> HeadingInWindow(checked_node.file, checked_node.lo))
        /\ ~checked_node.is_unsafe => Flagged(checked_node) = 0

\* in a file that does not begin the source map, an unsafe function closer
\* than 1000 bytes to the file start is accepted on the heading above it
C8_Witness ==
    /\ IsUnsafeFn(checked_node)
    /\ checked_node.file.src_available
    /\ checked_node.file.start_pos > 0
    /\ checked_node.lo < checked_node.file.start_pos + FnLookback
    /\ checked_node.file.a = "Safety"
    /\ Flagged(checked_node) = 0

\* C9 (as claimed): when the text before an unsafe function or a non-empty
\* unsafe block cannot be extracted, the node has no finding.
C9_FailOpen ==
    (/\ IsUnsafeFn(checked_node) \/ (IsUnsafeBlock(checked_node) /\ ~IsEmptyBlock(checked_node))
     /\ ~span_to_snippet(checked_node.file, checked_node.file.start_pos, checked_node.lo).ok)
        => Flagged(checked_node) = 0

====
